---- MODULE Spec2Model ----
(***************************************************************************)
(* A model of epaper-monitor: the widgets, the Display compositor with its *)
(* two backends (Screen, EPaper), the providers (provider.py's             *)
(* SignalKProvider and MqttProvider, which epaper_demo.py and service.py   *)
(* import, and the provider/ package's SignalKProvider with its            *)
(* SignalKSubscription delta trackers) and the Service that wires a        *)
(* provider's deltas to the Display.                                       *)
(***************************************************************************)
EXTENDS Integers, Sequences, FiniteSets, TLC

(***************************************************************************)
(* Bounds of the model.                                                    *)
(***************************************************************************)
\* poll cycles (fetches) one run of the poll loop performs in the model
MaxCycles == 3
\* bus messages the push provider's delivery loop handles in the model
MaxMsgs == 2
\* poll cycles one run of the package's SignalKProvider performs in the model
MaxPolls == 2
\* delta trackers (SignalKSubscription objects) the package's provider holds
MaxSubs == 2
\* register_callback calls on the package's provider
MaxRegs == 2
\* calls of the Display's operations a direct caller makes in the model
MaxCalls == 3
\* add_widget calls on one display
MaxAdds == 3
\* update calls on one widget
MaxUpdates == 2

(***************************************************************************)
(* Values.  A JSON leaf, an MQTT payload or a str() result is a record of  *)
(* the Python facts the code depends on: its type (kind), its str() (txt,  *)
(* a sequence of characters), whether float() accepts it (fok) and the     *)
(* number float() gives, in hundredths (num).                              *)
(***************************************************************************)
StrEmpty == [kind |-> "str", txt |-> <<>>, fok |-> FALSE, num |-> 0]
Int0 == [kind |-> "int", txt |-> <<"0">>, fok |-> TRUE, num |-> 0]
Float1234 == [kind |-> "float", txt |-> <<"1", "2", ".", "3", "4">>, fok |-> TRUE, num |-> 1234]
Str1234 == [kind |-> "str", txt |-> <<"1", "2", ".", "3", "4">>, fok |-> TRUE, num |-> 1234]
StrX == [kind |-> "str", txt |-> <<"x">>, fok |-> FALSE, num |-> 0]

\* the leaves a fetched document may hold
JsonLeaves == {StrEmpty, Int0, Float1234, Str1234, StrX}
\* message.payload.decode("utf-8") is always a str
Payloads == {v \in JsonLeaves : v.kind = "str"}

\* Python's str(v)
PyStr(v) == [kind |-> "str", txt |-> v.txt, fok |-> v.fok, num |-> v.num]

\* Python's bool(v): "" and 0 are falsy
Truthy(v) == IF v.kind = "str" THEN v.txt # <<>> ELSE v.num # 0

\* Python's a == b on leaves: numbers compare by value, strings by content,
\* a string never equals a number
PyEq(a, b) ==
    IF a.kind = "str" /\ b.kind = "str" THEN a.txt = b.txt
    ELSE IF a.kind # "str" /\ b.kind # "str" THEN a.num = b.num
    ELSE FALSE

(***************************************************************************)
(* Topics and fetched documents.  A topic is its slash-delimited path      *)
(* (topic.split("/")); a document is a JSON object of depth two.           *)
(***************************************************************************)
T1 == <<"bat", "v">>
T2 == <<"sol", "v">>
Topics == {T1, T2}

\* a JSON object is a record [kind |-> "dict", items |-> function on its keys]
Dict(f) == [kind |-> "dict", items |-> f]
Absent == [kind |-> "absent"]
Inner == {Dict(<<>>)} \cup {Dict([x \in {"v"} |-> v]) : v \in JsonLeaves}
\* one top-level key: absent, or an object with or without the leaf
TopOptions == {Absent} \cup Inner
\* the second key takes fewer shapes: absent, empty object, or a number
SolOptions == {Absent, Dict(<<>>), Dict([x \in {"v"} |-> Int0]), Dict([x \in {"v"} |-> Float1234])}
DocOf(b, s) ==
    Dict([k \in {x \in {"bat", "sol"} : \/ x = "bat" /\ b.kind # "absent"
                                        \/ x = "sol" /\ s.kind # "absent"} |->
            IF k = "bat" THEN b ELSE s])
Documents == {DocOf(b, s) : b \in TopOptions, s \in SolOptions}

\* the outcome of calling .get on something that is no dict
AttributeError == [kind |-> "AttributeError"]

\* val.get(element, "")
Get(val, element) ==
    IF val.kind = "dict"
    THEN IF element \in DOMAIN val.items THEN val.items[element] ELSE StrEmpty
    ELSE AttributeError

\* for element in path: val = val.get(element, "")
RECURSIVE Traverse(_, _)
Traverse(val, path) ==
    IF path = <<>> \/ val.kind = "AttributeError" THEN val
    ELSE Traverse(Get(val, Head(path)), Tail(path))

(***************************************************************************)
(* Widgets.  A bitmap is abstracted to the characters drawn into it; a     *)
(* position names the region of the master buffer a widget is pasted to.   *)
(***************************************************************************)
Blank == <<>>
IconBitmap == <<"icon">>

Digit(k) == <<"0", "1", "2", "3", "4", "5", "6", "7", "8", "9">>[k + 1]

RECURSIVE IntChars(_)
IntChars(n) == IF n < 10 THEN <<Digit(n)>> ELSE IntChars(n \div 10) \o <<Digit(n % 10)>>

\* n / m rounded to the nearest integer, ties to even (Python's round and
\* float formatting on exactly representable ties), n >= 0
RoundHalfEven(n, m) ==
    LET q == n \div m
        r == n % m
    IN  IF 2 * r > m THEN q + 1
        ELSE IF 2 * r < m THEN q
        ELSE IF q % 2 = 0 THEN q ELSE q + 1

Pow10(d) == IF d = 0 THEN 1 ELSE IF d = 1 THEN 10 ELSE 100

RECURSIVE PadLeft(_, _)
PadLeft(chars, d) == IF Len(chars) >= d THEN chars ELSE PadLeft(<<"0">> \o chars, d)

\* f"{x:.{d}f}" for x = num / 100 and 0 < d <= 2
FixedChars(num, d) ==
    LET scaled == RoundHalfEven(num, Pow10(2 - d))
    IN  IntChars(scaled \div Pow10(d)) \o <<".">> \o PadLeft(IntChars(scaled % Pow10(d)), d)

\* the widgets of the model: Text(is_numeric, decimal, suffix, text) and Icon
TextWidget(pos, numeric, decimal, suffix, text) ==
    [type |-> "Text", pos |-> pos, is_numeric |-> numeric, decimal |-> decimal,
     suffix |-> suffix, text |-> text]
IconWidget(pos) ==
    [type |-> "Icon", pos |-> pos, is_numeric |-> FALSE, decimal |-> 0,
     suffix |-> <<>>, text |-> <<>>]

Str(chars) == [kind |-> "str", txt |-> chars, fok |-> FALSE, num |-> 0]

\* Text.format_text: the formatted value, or the exception it raises
format_text(w, value) ==
    LET v1 == IF ~Truthy(value)
              THEN (IF w.is_numeric THEN PyStr(Int0) ELSE Str(w.text))
              ELSE value
        floatFails == w.is_numeric /\ v1.kind = "str" /\ ~v1.fok
        v2 == IF ~w.is_numeric THEN v1
              ELSE IF w.decimal > 0 THEN Str(FixedChars(v1.num, w.decimal))
              ELSE Str(IntChars(RoundHalfEven(v1.num, 100)))
    IN  IF floatFails THEN [exc |-> "ValueError", val |-> v1]
        ELSE IF w.suffix = <<>> THEN [exc |-> "none", val |-> v2]
        ELSE IF v2.kind # "str" THEN [exc |-> "TypeError", val |-> v2]
        ELSE [exc |-> "none", val |-> Str(v2.txt \o <<" ">> \o w.suffix)]

\* the text leaves ink: font.getmask(value).getbbox() is not None
HasInk(chars) == \E i \in 1..Len(chars) : chars[i] # " "

\* Text.update: the image is cleared first, then the formatted text is
\* measured (get_size) and pasted; [img, exc] is the bitmap left behind
\* and the exception that escapes, if any
Text_update(w, value) ==
    LET f == format_text(w, value)
    IN  IF f.exc # "none" THEN [img |-> Blank, exc |-> f.exc]
        ELSE IF f.val.kind # "str" \/ ~HasInk(f.val.txt) THEN [img |-> Blank, exc |-> "TypeError"]
        ELSE [img |-> f.val.txt, exc |-> "none"]

\* Icon.update is a no-op
Icon_update(w, img, value) == [img |-> img, exc |-> "none"]

\* widget.update(value) for either variant
Widget_update(w, img, value) ==
    IF w.type = "Icon" THEN Icon_update(w, img, value) ELSE Text_update(w, value)

(***************************************************************************)
(* The Display: the registry (a dict in insertion order: a sequence of     *)
(* [id, list] entries), the widgets' bitmaps and the master buffer.        *)
(***************************************************************************)
Anon1 == <<"__A">>
\* what f"__{generate_id()}" can be: random.choices draws the letters anew
\* at every call
AnonIds == {Anon1, <<"__B">>}
\* id.startswith("__")
IsAnonymous(id) == id \in AnonIds
Positions == {"p0", "p1", "p2"}

\* the registries define_widgets-like layouts leave behind
LayoutDemo ==
    [widgets |-> << [id |-> Anon1, list |-> <<1>>],
                    [id |-> T1, list |-> <<2>>],
                    [id |-> T2, list |-> <<3>>] >>,
     wcfg |-> << IconWidget("p0"),
                 TextWidget("p1", TRUE, 1, <<"V">>, <<>>),
                 TextWidget("p2", TRUE, 0, <<"W">>, <<>>) >>]
LayoutStacked ==
    [widgets |-> << [id |-> T1, list |-> <<1, 2>>],
                    [id |-> T2, list |-> <<3>>] >>,
     wcfg |-> << TextWidget("p0", TRUE, 1, <<"V">>, <<>>),
                 TextWidget("p1", TRUE, 0, <<>>, <<>>),
                 TextWidget("p2", FALSE, 0, <<>>, <<"-">>) >>]
Layouts == {LayoutDemo, LayoutStacked}
\* a registry of one label: a Text with no number format, suffix or text
LayoutPlain ==
    [widgets |-> << [id |-> T1, list |-> <<1>>] >>,
     wcfg |-> << TextWidget("p0", FALSE, 0, <<>>, <<>>) >>]
\* a display nothing was added to
LayoutEmpty == [widgets |-> <<>>, wcfg |-> <<>>]
\* an id no widget is registered under
T3 == <<"wind", "v">>

\* id in self.widgets
Registered(reg, id) == \E k \in 1..Len(reg) : reg[k].id = id
\* self.widgets[id]
Lookup(reg, id) == reg[CHOOSE k \in 1..Len(reg) : reg[k].id = id].list

\* one turn of update_widget's loop: widget.update(value), then the paste of
\* its image (never None for Text and Icon) at its position; on an exception
\* the bitmap the widget was left with stays and nothing is pasted
UpdateOne(d, cfg, idx, value) ==
    LET r == Widget_update(cfg[idx], d.wimg[idx], value)
    IN  [wimg |-> [d.wimg EXCEPT ![idx] = r.img],
         image |-> IF r.exc = "none" THEN [d.image EXCEPT ![cfg[idx].pos] = r.img] ELSE d.image,
         exc |-> r.exc]

\* for widget in self.widgets[id]: ... (the loop of update_widget)
RECURSIVE UpdateList(_, _, _, _)
UpdateList(d, cfg, list, value) ==
    IF list = <<>> \/ d.exc # "none" THEN d
    ELSE UpdateList(UpdateOne(d, cfg, Head(list), value), cfg, Tail(list), value)

\* update_widget without its refresh: self.widgets[id] raises KeyError for an
\* id that is no key of the registry
update_widget(d, cfg, reg, id, value) ==
    IF ~Registered(reg, id) THEN [d EXCEPT !.exc = "KeyError"]
    ELSE UpdateList(d, cfg, Lookup(reg, id), value)

\* for key in self.widgets.keys(): self.update_widget(key, refresh=False)
RECURSIVE UpdateKeys(_, _, _)
UpdateKeys(d, cfg, reg) ==
    IF reg = <<>> \/ d.exc # "none" THEN d
    ELSE UpdateKeys(UpdateList(d, cfg, Head(reg).list, StrEmpty), cfg, Tail(reg))

\* the bitmaps the widgets are constructed with
FreshImages(cfg) == [i \in 1..Len(cfg) |-> IF cfg[i].type = "Icon" THEN IconBitmap ELSE Blank]
\* create_image: the empty master buffer
FreshBuffer == [p \in Positions |-> Blank]

\* the display after construction, add_widget and the first update_all_widgets
Drawn(layout) ==
    UpdateKeys([wimg |-> FreshImages(layout.wcfg), image |-> FreshBuffer, exc |-> "none"],
               layout.wcfg, layout.widgets)

(***************************************************************************)
(* State.                                                                  *)
(***************************************************************************)
VARIABLES
    backend,    \* "Screen" or "EPaper"
    widgets,    \* Display.widgets: the registry
    wcfg,       \* the widgets' configuration, by widget number
    wimg,       \* the widgets' bitmaps, by widget number
    image,      \* the master buffer: the bitmap pasted last at each position
    power,      \* the e-paper controller: "awake" or "asleep" ("none" on Screen)
    panel,      \* what the backend shows: the buffer painted last, or Cleared
    painting,   \* the execution context whose repaint is in flight, or "none"
    kind,       \* the provider of provider.py: "poll" (SignalKProvider) or "push" (MqttProvider)
    entry,      \* the operation that was started: "Service.run" or "provider.run"
    topics,     \* provider.topics
    data,       \* SignalKProvider.data: the last value per topic
    on_data,    \* a callback is registered (Service.__init__ registers Service.callback)
    pc,         \* where the main thread is
    exc,        \* the exception that escaped the started operation, or "none"
    loop,       \* the bus client's delivery thread: "off", "on", "dead", "killed"
    subscribed, \* the topics the bus client has subscribed to
    cb,         \* the activation of Service.callback, if any
    calls,      \* the Display calls the current or last activation of Service.callback made
    cyc,        \* the current or last poll cycle (or delivered message)
    seen,       \* the value each topic had in the last poll cycle that was evaluated
    ncycle,     \* poll cycles started
    nmsg,       \* bus messages delivered
    nterm       \* calls of Display.terminate by Service.quit

dvars == <<backend, widgets, wcfg, wimg, image, power, panel, painting>>
pvars == <<kind, entry, topics, data, on_data>>
svars == <<pc, exc, loop, subscribed, cb, calls, cyc, seen, ncycle, nmsg, nterm>>
sysvars == <<dvars, pvars, svars>>

\* the state of the provider/ package's SignalKProvider
VARIABLES
    sk_pc,        \* "off", "setup" (constructed, run not started), "fetch", "sleep", "crashed"
    sk_exc,       \* the exception that escaped run, or "none"
    sk_topics,    \* self.topics
    sk_callback,  \* self.callback: 0 (None), or k for the callable the k-th register_callback passed
    sk_subs,      \* self.subscriptions: [topic, callback, value] per tracker
    sk_log,       \* the callback invocations of the current or last cycle
    sk_cyc,       \* the current or last cycle: fetch outcome and observations
    sk_seen,      \* the str of each topic's value in the last evaluated cycle
    sk_n,         \* poll cycles started
    sk_regs       \* register_callback calls made

\* a caller that uses the Display's operations directly
VARIABLES
    dcall,        \* the last operation called: arguments, outcome, backend commands, state before
    dn            \* operations called

apivars == <<dcall, dn>>

\* a caller of single operations of the registry and of the widgets
VARIABLES
    ucall,        \* the last operation called: arguments, outcome, state before
    un            \* operations called

uvars == <<ucall, un>>

skvars == <<sk_pc, sk_exc, sk_topics, sk_callback, sk_subs, sk_log, sk_cyc, sk_seen, sk_n, sk_regs>>


Cleared == [p \in Positions |-> <<"cleared">>]
NoObs == [kind |-> "none"]
NoCb == [ctx |-> "none", batch |-> <<>>, i |-> 0, w |-> 0, inside |-> "none"]
NoCalls == [batch |-> <<>>, log |-> <<>>, state |-> "none", by |-> "none"]

\* [id for id in display.widgets if not id.startswith("__")]
RECURSIVE Subscriptions(_)
Subscriptions(reg) ==
    IF reg = <<>> THEN <<>>
    ELSE IF IsAnonymous(Head(reg).id) THEN Subscriptions(Tail(reg))
    ELSE <<Head(reg).id>> \o Subscriptions(Tail(reg))

Range(seq) == {seq[k] : k \in 1..Len(seq)}

(***************************************************************************)
(* Init: the display is constructed, the widgets are added and drawn once  *)
(* (update_all_widgets), the provider is constructed over the display's    *)
(* subscribable ids and the Service has registered its callback.           *)
(***************************************************************************)
InitDisplay(l) ==
    /\ backend \in {"Screen", "EPaper"}
    /\ widgets = l.widgets
    /\ wcfg = l.wcfg
    /\ wimg = Drawn(l).wimg
    /\ image = Drawn(l).image
    /\ panel = Drawn(l).image
    /\ power = IF backend = "EPaper" THEN "asleep" ELSE "none"
    /\ painting = "none"

InitSystem ==
    /\ \E l \in Layouts :
        /\ InitDisplay(l)
        /\ topics = Subscriptions(l.widgets)
        /\ data = [t \in Range(Subscriptions(l.widgets)) |-> Int0]
        /\ seen = [t \in Range(Subscriptions(l.widgets)) |-> NoObs]
        /\ cyc = [status |-> "none", prev |-> "none",
                  data0 |-> [t \in Range(Subscriptions(l.widgets)) |-> Int0],
                  image0 |-> Drawn(l).image,
                  obs |-> [t \in Range(Subscriptions(l.widgets)) |-> NoObs],
                  last |-> [t \in Range(Subscriptions(l.widgets)) |-> NoObs],
                  batch |-> <<>>, paints |-> 0, at |-> "none", doc |-> Absent]
    /\ \/ kind = "push" /\ entry = "Service.run" /\ on_data = TRUE
       \/ kind = "poll" /\ entry = "Service.run" /\ on_data = TRUE
       \/ kind = "poll" /\ entry = "provider.run" /\ on_data \in BOOLEAN
    /\ pc = IF entry = "Service.run" THEN "connect" ELSE "fetch"
    /\ exc = "none"
    /\ loop = "off"
    /\ subscribed = {}
    /\ cb = NoCb
    /\ calls = NoCalls
    /\ ncycle = 0
    /\ nmsg = 0
    /\ nterm = 0

(***************************************************************************)
(* Service.callback, run by the context that delivers the batch: the main  *)
(* thread (poll provider) or the bus client's delivery thread (push        *)
(* provider).  One step per widget of an item, then the refresh.           *)
(***************************************************************************)
Call(op, id, value) == [op |-> op, id |-> id, value |-> value, refresh |-> FALSE]

\* the context that runs the activation is scheduled
CtxRuns(ctx) == IF ctx = "main" THEN pc = "callback" ELSE loop = "on"

\* if not data: return; otherwise the activation begins
Service_callback(batch, ctx) ==
    IF batch = <<>>
    THEN /\ UNCHANGED <<cb, calls>>
         /\ pc' = IF ctx = "main" THEN "sleep" ELSE pc
    ELSE /\ cb' = [ctx |-> ctx, batch |-> batch, i |-> 1, w |-> 1, inside |-> "none"]
         /\ calls' = [batch |-> batch, log |-> <<>>, state |-> "running", by |-> ctx]
         /\ pc' = IF ctx = "main" THEN "callback" ELSE pc

\* an exception leaves Service.callback: the poll loop and Service.run catch
\* nothing but KeyboardInterrupt, so it escapes the main thread; in the
\* delivery thread the bus client either logs it or lets the thread die
CbRaise(e, log1) ==
    /\ cb' = NoCb
    /\ calls' = [calls EXCEPT !.log = log1, !.state = "raised"]
    /\ IF cb.ctx = "main"
       THEN pc' = "crashed" /\ exc' = e /\ loop' = loop
       ELSE pc' = pc /\ exc' = exc /\ loop' \in {"on", "dead"}

\* Service.callback returns
CbReturn(log1) ==
    /\ cb' = NoCb
    /\ calls' = [calls EXCEPT !.log = log1, !.state = "returned"]
    /\ pc' = IF cb.ctx = "main" THEN "sleep" ELSE pc
    /\ UNCHANGED <<exc, loop>>

\* self.display.update_widget(subscription[0], subscription[1], False):
\* one widget of self.widgets[id] per step
CbUpdate ==
    /\ cb.ctx # "none" /\ cb.i <= Len(cb.batch) /\ CtxRuns(cb.ctx)
    /\ LET id == cb.batch[cb.i][1]
           value == cb.batch[cb.i][2]
           log1 == IF cb.w = 1 THEN Append(calls.log, Call("update_widget", id, value))
                   ELSE calls.log
       IN  IF ~Registered(widgets, id)
           THEN CbRaise("KeyError", log1) /\ UNCHANGED <<wimg, image>>
           ELSE LET list == Lookup(widgets, id)
                    d == UpdateOne([wimg |-> wimg, image |-> image, exc |-> "none"],
                                   wcfg, list[cb.w], value)
                IN  /\ wimg' = d.wimg
                    /\ image' = d.image
                    /\ IF d.exc # "none" THEN CbRaise(d.exc, log1)
                       ELSE /\ cb' = IF cb.w < Len(list)
                                     THEN [cb EXCEPT !.w = cb.w + 1, !.inside = "update_widget"]
                                     ELSE [cb EXCEPT !.i = cb.i + 1, !.w = 1, !.inside = "none"]
                            /\ calls' = [calls EXCEPT !.log = log1]
                            /\ UNCHANGED <<pc, exc, loop>>
    /\ UNCHANGED <<backend, widgets, wcfg, power, panel, painting>>
    /\ UNCHANGED <<pvars, subscribed, cyc, seen, ncycle, nmsg, nterm>>
    /\ UNCHANGED <<skvars, apivars, uvars>>

\* the backend class defines refresh: Screen does (self.image.show()),
\* EPaper does not; Display declares it with the body pass, which is what
\* the call runs on an EPaper object
OverridesRefresh(b) == b = "Screen"

\* self.display.refresh().  On EPaper the call runs the body Display
\* declares: pass
CbRefresh ==
    /\ cb.ctx # "none" /\ cb.i > Len(cb.batch) /\ cb.inside = "none" /\ CtxRuns(cb.ctx)
    /\ LET log1 == Append(calls.log, Call("refresh", <<>>, StrEmpty))
       IN  IF OverridesRefresh(backend)
           THEN /\ cb' = [cb EXCEPT !.inside = "refresh"]
                /\ calls' = [calls EXCEPT !.log = log1]
                /\ painting' = cb.ctx
                /\ cyc' = [cyc EXCEPT !.paints = cyc.paints + 1]
                /\ UNCHANGED <<pc, exc, loop>>
           ELSE /\ CbReturn(log1)
                /\ UNCHANGED <<painting, cyc>>
    /\ UNCHANGED <<backend, widgets, wcfg, wimg, image, power, panel>>
    /\ UNCHANGED <<pvars, subscribed, seen, ncycle, nmsg, nterm>>
    /\ UNCHANGED <<skvars, apivars, uvars>>

\* image.show() completes and Service.callback returns
CbRefreshEnd ==
    /\ cb.ctx # "none" /\ cb.inside = "refresh" /\ CtxRuns(cb.ctx)
    /\ panel' = image
    /\ painting' = "none"
    /\ CbReturn(calls.log)
    /\ UNCHANGED <<backend, widgets, wcfg, wimg, image, power>>
    /\ UNCHANGED <<pvars, subscribed, cyc, seen, ncycle, nmsg, nterm>>
    /\ UNCHANGED <<skvars, apivars, uvars>>

(***************************************************************************)
(* provider.py: SignalKProvider (poll).                                    *)
(***************************************************************************)
\* self.data[topic] != value
Changed(old, value) == ~PyEq(old, value)

\* SignalKProvider.eval_response: the batch of changed topics, the updated
\* self.data, and the AttributeError of a path through something that is
\* no dict (what .get returns for a missing key is the str "")
RECURSIVE eval_response(_, _, _, _)
eval_response(response, tpcs, d, batch) ==
    IF tpcs = <<>> THEN [data |-> d, batch |-> batch, exc |-> "none"]
    ELSE LET topic == Head(tpcs)
             value == Traverse(response, topic)
         IN  IF value.kind = "AttributeError"
             THEN [data |-> d, batch |-> batch, exc |-> "AttributeError"]
             ELSE IF Changed(d[topic], value)
             THEN eval_response(response, Tail(tpcs), [d EXCEPT ![topic] = value],
                                Append(batch, <<topic, value>>))
             ELSE eval_response(response, Tail(tpcs), d, batch)

\* a cycle begins: what the cycle record holds before the fetch returns,
\* and where the main thread is
Cycle(status) ==
    [status |-> status, prev |-> cyc.status, data0 |-> data, image0 |-> image,
     obs |-> seen, last |-> seen, batch |-> <<>>, paints |-> 0, at |-> pc, doc |-> Absent]

\* requests.get raises (timeout, connection error): run has no try
Request_raises ==
    /\ pc = "fetch" /\ ncycle < MaxCycles
    /\ cyc' = Cycle("timeout")
    /\ ncycle' = ncycle + 1
    /\ pc' = "crashed"
    /\ exc' = "RequestException"
    /\ UNCHANGED <<dvars, pvars, loop, subscribed, cb, calls, seen, nmsg, nterm>>
    /\ UNCHANGED <<skvars, apivars, uvars>>

\* response.status_code != 200: the cycle is skipped
Request_not200 ==
    /\ pc = "fetch" /\ ncycle < MaxCycles
    /\ cyc' = Cycle("http_error")
    /\ ncycle' = ncycle + 1
    /\ pc' = "sleep"
    /\ UNCHANGED <<dvars, pvars, exc, loop, subscribed, cb, calls, seen, nmsg, nterm>>
    /\ UNCHANGED <<skvars, apivars, uvars>>

\* status 200 and json.loads(response.text) raises
Request_badjson ==
    /\ pc = "fetch" /\ ncycle < MaxCycles
    /\ cyc' = Cycle("bad_json")
    /\ ncycle' = ncycle + 1
    /\ pc' = "crashed"
    /\ exc' = "JSONDecodeError"
    /\ UNCHANGED <<dvars, pvars, loop, subscribed, cb, calls, seen, nmsg, nterm>>
    /\ UNCHANGED <<skvars, apivars, uvars>>

\* status 200 and a document: eval_response, then self.on_data(data)
Request_ok ==
    /\ pc = "fetch" /\ ncycle < MaxCycles
    /\ ncycle' = ncycle + 1
    /\ \E doc \in Documents :
        LET r == eval_response(doc, topics, data, <<>>)
            obs == [t \in DOMAIN data |-> Traverse(doc, t)]
        IN  /\ data' = r.data
            /\ IF r.exc # "none"
               THEN /\ cyc' = [Cycle("eval_error") EXCEPT !.batch = r.batch, !.doc = doc]
                    /\ pc' = "crashed"
                    /\ exc' = r.exc
                    /\ UNCHANGED <<seen, cb, calls>>
               ELSE /\ cyc' = [Cycle("ok") EXCEPT !.obs = obs, !.batch = r.batch, !.doc = doc]
                    /\ seen' = obs
                    /\ exc' = exc
                    /\ IF on_data THEN Service_callback(r.batch, "main")
                       ELSE pc' = "sleep" /\ UNCHANGED <<cb, calls>>
    /\ UNCHANGED <<dvars, kind, entry, topics, on_data, loop, subscribed, nmsg, nterm>>
    /\ UNCHANGED <<skvars, apivars, uvars>>

\* sleep(self.request_cycle_time), then the next turn of while True
Sleep ==
    /\ pc = "sleep"
    /\ pc' = "fetch"
    /\ UNCHANGED <<dvars, pvars, exc, loop, subscribed, cb, calls, cyc, seen, ncycle, nmsg, nterm>>
    /\ UNCHANGED <<skvars, apivars, uvars>>

\* SignalKProvider.connect of provider.py: self.client does not exist
SignalKProvider_connect ==
    /\ pc = "connect" /\ kind = "poll"
    /\ pc' = "crashed"
    /\ exc' = "AttributeError"
    /\ UNCHANGED <<dvars, pvars, loop, subscribed, cb, calls, cyc, seen, ncycle, nmsg, nterm>>
    /\ UNCHANGED <<skvars, apivars, uvars>>

(***************************************************************************)
(* provider.py: MqttProvider (push).                                       *)
(***************************************************************************)
\* self.client.connect(self.host, self.port) returns
MqttProvider_connect ==
    /\ pc = "connect" /\ kind = "push"
    /\ pc' = "run"
    /\ UNCHANGED <<dvars, pvars, exc, loop, subscribed, cb, calls, cyc, seen, ncycle, nmsg, nterm>>
    /\ UNCHANGED <<skvars, apivars, uvars>>

\* a variation in which the failure is swallowed and Service.run goes on
MqttProvider_connect_swallowed ==
    /\ pc = "connect" /\ kind = "push"
    /\ pc' = "run"
    /\ exc' = "ConnectionError"
    /\ UNCHANGED <<dvars, pvars, loop, subscribed, cb, calls, cyc, seen, ncycle, nmsg, nterm>>
    /\ UNCHANGED <<skvars, apivars, uvars>>

\* self.client.connect raises: Service.run catches KeyboardInterrupt only
MqttProvider_connect_fails ==
    /\ pc = "connect" /\ kind = "push"
    /\ pc' = "crashed"
    /\ exc' = "ConnectionError"
    /\ UNCHANGED <<dvars, pvars, loop, subscribed, cb, calls, cyc, seen, ncycle, nmsg, nterm>>
    /\ UNCHANGED <<skvars, apivars, uvars>>

\* MqttProvider.run: self.client.loop_start()
MqttProvider_run ==
    /\ pc = "run" /\ kind = "push"
    /\ loop' = "on"
    /\ pc' = "subscribe"
    /\ UNCHANGED <<dvars, pvars, exc, subscribed, cb, calls, cyc, seen, ncycle, nmsg, nterm>>
    /\ UNCHANGED <<skvars, apivars, uvars>>

\* MqttProvider.subscribe_topics: subscribe every non-empty topic; run
\* returns and Service.run enters its idle loop
MqttProvider_subscribe_topics ==
    /\ pc = "subscribe"
    /\ subscribed' = {t \in Range(topics) : t # <<>>}
    /\ pc' = "idle"
    /\ UNCHANGED <<dvars, pvars, exc, loop, cb, calls, cyc, seen, ncycle, nmsg, nterm>>
    /\ UNCHANGED <<skvars, apivars, uvars>>

\* MqttProvider.on_message, on the delivery thread: the callback gets
\* [(message.topic, message.payload.decode("utf-8"))]
MqttProvider_on_message ==
    /\ loop = "on" /\ cb.ctx = "none" /\ nmsg < MaxMsgs
    /\ \E t \in subscribed, payload \in Payloads :
        /\ cyc' = [Cycle("msg") EXCEPT !.batch = <<<<t, payload>>>>]
        /\ IF on_data THEN Service_callback(<<<<t, payload>>>>, "loop")
           ELSE UNCHANGED <<pc, cb, calls>>
    /\ nmsg' = nmsg + 1
    /\ UNCHANGED <<dvars, pvars, exc, loop, subscribed, seen, ncycle, nterm>>
    /\ UNCHANGED <<skvars, apivars, uvars>>

(***************************************************************************)
(* Service.run and Service.quit.                                           *)
(***************************************************************************)
\* a variation in which quit leaves the display alone
Service_quit_skipped(n) == n
\* Service.quit: self.display.terminate(), counted
Service_quit(n) == n + 1

\* KeyboardInterrupt reaches the main thread.  Inside Service.run's try it
\* is caught and Service.quit calls Display.terminate; a provider.run that
\* was started directly lets it escape.  What the main thread was doing is
\* abandoned, a repaint in flight included
KeyboardInterrupt ==
    /\ pc \in {"connect", "run", "subscribe", "idle", "fetch", "callback", "sleep"}
    /\ IF entry = "Service.run"
       THEN /\ pc' = IF backend = "EPaper" THEN "term_init" ELSE "term_pass"
            /\ nterm' = Service_quit(nterm)
            /\ exc' = exc
       ELSE /\ pc' = "crashed"
            /\ exc' = "KeyboardInterrupt"
            /\ nterm' = nterm
    /\ IF cb.ctx = "main"
       THEN /\ cb' = NoCb
            /\ calls' = [calls EXCEPT !.state = "aborted"]
            /\ painting' = IF painting = "main" THEN "aborted" ELSE painting
       ELSE UNCHANGED <<cb, calls, painting>>
    /\ UNCHANGED <<backend, widgets, wcfg, wimg, image, power, panel>>
    /\ UNCHANGED <<pvars, loop, subscribed, cyc, seen, ncycle, nmsg>>
    /\ UNCHANGED <<skvars, apivars, uvars>>

\* EPaper.terminate: init_display (epd.init, epd.Clear) and epd.sleep
EPaper_terminate_init ==
    /\ pc = "term_init"
    /\ power' = "awake"
    /\ pc' = "term_clear"
    /\ UNCHANGED <<backend, widgets, wcfg, wimg, image, panel, painting>>
    /\ UNCHANGED <<pvars, exc, loop, subscribed, cb, calls, cyc, seen, ncycle, nmsg, nterm>>
    /\ UNCHANGED <<skvars, apivars, uvars>>

EPaper_terminate_Clear ==
    /\ pc = "term_clear"
    /\ panel' = Cleared
    /\ pc' = "term_sleep"
    /\ UNCHANGED <<backend, widgets, wcfg, wimg, image, power, painting>>
    /\ UNCHANGED <<pvars, exc, loop, subscribed, cb, calls, cyc, seen, ncycle, nmsg, nterm>>
    /\ UNCHANGED <<skvars, apivars, uvars>>

EPaper_terminate_sleep ==
    /\ pc = "term_sleep"
    /\ power' = "asleep"
    /\ pc' = "done"
    /\ UNCHANGED <<backend, widgets, wcfg, wimg, image, panel, painting>>
    /\ UNCHANGED <<pvars, exc, loop, subscribed, cb, calls, cyc, seen, ncycle, nmsg, nterm>>
    /\ UNCHANGED <<skvars, apivars, uvars>>

\* Screen.terminate: pass
Screen_terminate ==
    /\ pc = "term_pass"
    /\ pc' = "done"
    /\ UNCHANGED <<dvars, pvars, exc, loop, subscribed, cb, calls, cyc, seen, ncycle, nmsg, nterm>>
    /\ UNCHANGED <<skvars, apivars, uvars>>

\* Service.run has returned or died: the process ends and takes the
\* delivery thread (a daemon thread) with it
ProcessExit ==
    /\ pc \in {"done", "crashed"} /\ loop = "on"
    /\ loop' = "killed"
    /\ UNCHANGED <<dvars, pvars, pc, exc, subscribed, cb, calls, cyc, seen, ncycle, nmsg, nterm>>
    /\ UNCHANGED <<skvars, apivars, uvars>>

(***************************************************************************)
(* provider/signalk.py: SignalKProvider with one SignalKSubscription per   *)
(* subscribe_topic call.  The callback is any callable of (topic, value);  *)
(* the model records its invocations.                                      *)
(***************************************************************************)
\* SignalKSubscription.__init__: the last value starts as ""
SignalKSubscription(topic, callback) == [topic |-> topic, callback |-> callback, value |-> <<>>]

\* SignalKProvider.subscribe_topic, as a function of self.subscriptions
subscribe_topic(subs, topic, callback) == Append(subs, SignalKSubscription(topic, callback))

\* for topic in self.topics: self.subscribe_topic(topic)
RECURSIVE subscribe_all(_, _, _)
subscribe_all(subs, tpcs, callback) ==
    IF tpcs = <<>> THEN subs
    ELSE subscribe_all(subscribe_topic(subs, Head(tpcs), callback), Tail(tpcs), callback)

NoSkCycle ==
    [status |-> "none", obs |-> [t \in Topics |-> NoObs], last |-> [t \in Topics |-> NoObs],
     doc |-> Absent]

InitSignalK ==
    /\ sk_pc = "setup"
    /\ sk_exc = "none"
    /\ sk_topics \in {<<T1>>, <<T1, T2>>}
    /\ sk_callback = 0
    /\ sk_subs = <<>>
    /\ sk_log = <<>>
    /\ sk_cyc = NoSkCycle
    /\ sk_seen = [t \in Topics |-> NoObs]
    /\ sk_n = 0
    /\ sk_regs = 0

\* provider.subscribe_topic(t), before run
SK_subscribe_topic ==
    /\ sk_pc = "setup" /\ Len(sk_subs) < MaxSubs
    /\ \E t \in Topics : sk_subs' = subscribe_topic(sk_subs, t, sk_callback)
    /\ UNCHANGED <<sk_pc, sk_exc, sk_topics, sk_callback, sk_log, sk_cyc, sk_seen, sk_n, sk_regs>>
    /\ UNCHANGED <<sysvars, apivars, uvars>>

\* provider.register_callback(c), before run: self.callback = c, then every
\* topic of self.topics is subscribed (again)
SK_register_callback ==
    /\ sk_pc = "setup" /\ sk_regs < MaxRegs /\ Len(sk_subs) + Len(sk_topics) <= MaxSubs
    /\ sk_callback' = sk_regs + 1
    /\ sk_subs' = subscribe_all(sk_subs, sk_topics, sk_regs + 1)
    /\ sk_regs' = sk_regs + 1
    /\ UNCHANGED <<sk_pc, sk_exc, sk_topics, sk_log, sk_cyc, sk_seen, sk_n>>
    /\ UNCHANGED <<sysvars, apivars, uvars>>

\* run is called: while True
SK_run ==
    /\ sk_pc = "setup"
    /\ sk_pc' = "fetch"
    /\ UNCHANGED <<sk_exc, sk_topics, sk_callback, sk_subs, sk_log, sk_cyc, sk_seen, sk_n, sk_regs>>
    /\ UNCHANGED <<sysvars, apivars, uvars>>

\* a variation in which every observation counts as a change
SK_changed_always(value, str_val) == TRUE
\* if self.value != str_val
SK_changed(value, str_val) == value # str_val

\* SignalKSubscription.update for every tracker in turn: [subs, log, exc]
RECURSIVE SK_update_all(_, _, _, _)
SK_update_all(subs, k, json_data, log) ==
    IF k > Len(subs) THEN [subs |-> subs, log |-> log, exc |-> "none"]
    ELSE LET sub == subs[k]
             val == Traverse(json_data, sub.topic)
         IN  IF val.kind = "AttributeError"
             THEN [subs |-> subs, log |-> log, exc |-> "AttributeError"]
             ELSE LET str_val == PyStr(val).txt
                  IN  IF SK_changed(sub.value, str_val)
                      THEN SK_update_all([subs EXCEPT ![k].value = str_val], k + 1, json_data,
                                         IF sub.callback = 0 THEN log
                                         ELSE Append(log, [topic |-> sub.topic, value |-> str_val,
                                                           callback |-> sub.callback]))
                      ELSE SK_update_all(subs, k + 1, json_data, log)

SubscribedTopics(subs) == {subs[k].topic : k \in 1..Len(subs)}

\* requests.get raises a RequestException: caught and printed
SK_Request_raises ==
    /\ sk_pc = "fetch" /\ sk_n < MaxPolls
    /\ sk_cyc' = [status |-> "timeout", obs |-> sk_seen, last |-> sk_seen, doc |-> Absent]
    /\ sk_log' = <<>>
    /\ sk_n' = sk_n + 1
    /\ sk_pc' = "sleep"
    /\ UNCHANGED <<sk_exc, sk_topics, sk_callback, sk_subs, sk_seen, sk_regs>>
    /\ UNCHANGED <<sysvars, apivars, uvars>>

\* response.raise_for_status() raises HTTPError: caught and printed
SK_Request_http_error ==
    /\ sk_pc = "fetch" /\ sk_n < MaxPolls
    /\ sk_cyc' = [status |-> "http_error", obs |-> sk_seen, last |-> sk_seen, doc |-> Absent]
    /\ sk_log' = <<>>
    /\ sk_n' = sk_n + 1
    /\ sk_pc' = "sleep"
    /\ UNCHANGED <<sk_exc, sk_topics, sk_callback, sk_subs, sk_seen, sk_regs>>
    /\ UNCHANGED <<sysvars, apivars, uvars>>

\* json.loads(response) raises json.JSONDecodeError, a ValueError and no
\* RequestException: the except clause does not catch it
SK_Request_badjson ==
    /\ sk_pc = "fetch" /\ sk_n < MaxPolls
    /\ sk_cyc' = [status |-> "bad_json", obs |-> sk_seen, last |-> sk_seen, doc |-> Absent]
    /\ sk_log' = <<>>
    /\ sk_n' = sk_n + 1
    /\ sk_pc' = "crashed"
    /\ sk_exc' = "JSONDecodeError"
    /\ UNCHANGED <<sk_topics, sk_callback, sk_subs, sk_seen, sk_regs>>
    /\ UNCHANGED <<sysvars, apivars, uvars>>

\* eval_response over a document
SK_Request_ok ==
    /\ sk_pc = "fetch" /\ sk_n < MaxPolls
    /\ sk_n' = sk_n + 1
    /\ \E doc \in Documents :
        LET r == SK_update_all(sk_subs, 1, doc, <<>>)
            obs == [t \in Topics |-> IF t \in SubscribedTopics(sk_subs)
                                     THEN PyStr(Traverse(doc, t)) ELSE sk_seen[t]]
        IN  /\ sk_subs' = r.subs
            /\ sk_log' = r.log
            /\ IF r.exc # "none"
               THEN /\ sk_cyc' = [status |-> "eval_error", obs |-> sk_seen, last |-> sk_seen,
                                     doc |-> doc]
                    /\ sk_pc' = "crashed"
                    /\ sk_exc' = r.exc
                    /\ sk_seen' = sk_seen
               ELSE /\ sk_cyc' = [status |-> "ok", obs |-> obs, last |-> sk_seen, doc |-> doc]
                    /\ sk_seen' = obs
                    /\ sk_pc' = "sleep"
                    /\ sk_exc' = sk_exc
    /\ UNCHANGED <<sk_topics, sk_callback, sk_regs>>
    /\ UNCHANGED <<sysvars, apivars, uvars>>

SK_Sleep ==
    /\ sk_pc = "sleep"
    /\ sk_pc' = "fetch"
    /\ UNCHANGED <<sk_exc, sk_topics, sk_callback, sk_subs, sk_log, sk_cyc, sk_seen, sk_n, sk_regs>>
    /\ UNCHANGED <<sysvars, apivars, uvars>>

NextSignalK ==
    \/ SK_subscribe_topic \/ SK_register_callback \/ SK_run
    \/ SK_Request_raises \/ SK_Request_http_error \/ SK_Request_badjson
    \/ SK_Request_ok \/ SK_Sleep

vars == <<backend, widgets, wcfg, wimg, image, power, panel, painting,
          kind, entry, topics, data, on_data,
          pc, exc, loop, subscribed, cb, calls, cyc, seen, ncycle, nmsg, nterm,
          sk_pc, sk_exc, sk_topics, sk_callback, sk_subs, sk_log, sk_cyc, sk_seen, sk_n, sk_regs,
          dcall, dn, ucall, un>>

NextSystem ==
    \/ CbUpdate \/ CbRefresh \/ CbRefreshEnd
    \/ Request_raises \/ Request_not200 \/ Request_badjson \/ Request_ok \/ Sleep
    \/ SignalKProvider_connect
    \/ MqttProvider_connect \/ MqttProvider_connect_fails \/ MqttProvider_run
    \/ MqttProvider_subscribe_topics \/ MqttProvider_on_message
    \/ KeyboardInterrupt
    \/ EPaper_terminate_init \/ EPaper_terminate_Clear \/ EPaper_terminate_sleep
    \/ Screen_terminate \/ ProcessExit

(***************************************************************************)
(* The Display's operations, called one after the other by a single        *)
(* caller on a display that was constructed and given its widgets.         *)
(***************************************************************************)
ApiOff == [op |-> "off"]
\* the call just made, the state it started from, and the call before it
ApiCall(op, id, value, refresh, e, cmds) ==
    [op |-> op, id |-> id, value |-> value, refresh |-> refresh, exc |-> e, cmds |-> cmds,
     wimg0 |-> wimg, image0 |-> image, panel0 |-> panel, power0 |-> power,
     prev |-> IF dcall.op = "none" THEN [op |-> "none"]
              ELSE [op |-> dcall.op, id |-> dcall.id, exc |-> dcall.exc]]

\* what the panel shows after a paint command.  The e-paper controller is
\* in deep sleep after epd.sleep(): whether it takes a frame before the next
\* epd.init() is not defined by the code
Paint(b, pw, pnl, img) == IF b = "EPaper" /\ pw = "asleep" THEN {pnl, img} ELSE {img}

\* __init__ (EPaper: init_display leaves the controller awake and the panel
\* cleared; Screen: update_all_widgets returns on the empty registry), then
\* add_widget for every widget of the layout
InitApi ==
    /\ \E l \in Layouts \cup {LayoutEmpty, LayoutPlain} :
        /\ widgets = l.widgets
        /\ wcfg = l.wcfg
        /\ wimg = FreshImages(l.wcfg)
    /\ backend \in {"Screen", "EPaper"}
    /\ image = FreshBuffer
    /\ panel = IF backend = "EPaper" THEN Cleared ELSE FreshBuffer
    /\ power = IF backend = "EPaper" THEN "awake" ELSE "none"
    /\ painting = "none"
    /\ dcall = [op |-> "none"]
    /\ dn = 0

\* the display as an operation finds it
Cur == [wimg |-> wimg, image |-> image, panel |-> panel, power |-> power,
        exc |-> "none", cmds |-> <<>>]

\* a variation that repaints whatever refresh says
Do_update_widget_repaints(b, reg, cfg, s, id, value, refresh) ==
    LET d == update_widget([wimg |-> s.wimg, image |-> s.image, exc |-> "none"],
                           cfg, reg, id, value)
        paints == d.exc = "none"
        cmds == IF ~paints THEN <<>>
                ELSE IF b = "EPaper" THEN <<"display_Partial", "sleep">>
                ELSE <<"show">>
    IN  { [wimg |-> d.wimg, image |-> d.image, panel |-> pnl,
           power |-> IF paints /\ b = "EPaper" THEN "asleep" ELSE s.power,
           exc |-> d.exc, cmds |-> cmds] :
          pnl \in IF paints THEN Paint(b, s.power, s.panel, d.image) ELSE {s.panel} }

\* the displays update_widget(id, value, refresh) can leave behind, with the
\* exception that left it and the backend commands it issued
Do_update_widget(b, reg, cfg, s, id, value, refresh) ==
    LET d == update_widget([wimg |-> s.wimg, image |-> s.image, exc |-> "none"],
                           cfg, reg, id, value)
        paints == refresh /\ d.exc = "none"
        cmds == IF ~paints THEN <<>>
                ELSE IF b = "EPaper" THEN <<"display_Partial", "sleep">>
                ELSE <<"show">>
    IN  { [wimg |-> d.wimg, image |-> d.image, panel |-> pnl,
           power |-> IF paints /\ b = "EPaper" THEN "asleep" ELSE s.power,
           exc |-> d.exc, cmds |-> cmds] :
          pnl \in IF paints THEN Paint(b, s.power, s.panel, d.image) ELSE {s.panel} }

\* the same for update_all_widgets()
Do_update_all_widgets(b, reg, cfg, s) ==
    LET d == IF reg = <<>> THEN [wimg |-> s.wimg, image |-> s.image, exc |-> "none"]
             ELSE UpdateKeys([wimg |-> s.wimg, image |-> s.image, exc |-> "none"], cfg, reg)
        paints == reg # <<>> /\ d.exc = "none"
        cmds == IF ~paints THEN <<>>
                ELSE IF b = "EPaper" THEN <<"display", "sleep">>
                ELSE <<"show">>
    IN  { [wimg |-> d.wimg, image |-> d.image, panel |-> pnl,
           power |-> IF paints /\ b = "EPaper" THEN "asleep" ELSE s.power,
           exc |-> d.exc, cmds |-> cmds] :
          pnl \in IF paints THEN Paint(b, s.power, s.panel, d.image) ELSE {s.panel} }

\* the same for refresh(): Screen shows the buffer; EPaper defines no
\* refresh and runs the body Display declares
Do_refresh(b, s) ==
    { [s EXCEPT !.panel = IF OverridesRefresh(b) THEN s.image ELSE s.panel,
                !.exc = "none",
                !.cmds = IF OverridesRefresh(b) THEN <<"show">> ELSE <<>>] }

\* display.update_widget(id, value, refresh)
Display_update_widget ==
    /\ dcall.op # "off" /\ dn < MaxCalls
    /\ \E id \in {widgets[k].id : k \in 1..Len(widgets)} \cup {T3}, value \in JsonLeaves,
          refresh \in BOOLEAN :
        \E r \in Do_update_widget(backend, widgets, wcfg, Cur, id, value, refresh) :
            /\ wimg' = r.wimg
            /\ image' = r.image
            /\ panel' = r.panel
            /\ power' = r.power
            /\ dcall' = ApiCall("update_widget", id, value, refresh, r.exc, r.cmds)
    /\ dn' = dn + 1
    /\ UNCHANGED <<backend, widgets, wcfg, painting, pvars, svars, skvars, uvars>>

\* display.update_all_widgets()
Display_update_all_widgets ==
    /\ dcall.op # "off" /\ dn < MaxCalls
    /\ \E r \in Do_update_all_widgets(backend, widgets, wcfg, Cur) :
        /\ wimg' = r.wimg
        /\ image' = r.image
        /\ panel' = r.panel
        /\ power' = r.power
        /\ dcall' = ApiCall("update_all_widgets", <<>>, StrEmpty, FALSE, r.exc, r.cmds)
    /\ dn' = dn + 1
    /\ UNCHANGED <<backend, widgets, wcfg, painting, pvars, svars, skvars, uvars>>

\* display.refresh()
Display_refresh ==
    /\ dcall.op # "off" /\ dn < MaxCalls
    /\ \E r \in Do_refresh(backend, Cur) :
        /\ panel' = r.panel
        /\ dcall' = ApiCall("refresh", <<>>, StrEmpty, FALSE, r.exc, r.cmds)
    /\ dn' = dn + 1
    /\ UNCHANGED <<backend, widgets, wcfg, wimg, image, power, painting, pvars, svars, skvars, uvars>>

\* EPaper.terminate(): init_display (epd.init wakes the controller, Clear
\* blanks the panel), then epd.sleep
EPaper_terminate_toggles(pw, pnl) ==
    [power |-> IF pw = "asleep" THEN "awake" ELSE "asleep", panel |-> Cleared]
EPaper_terminate_nosleep(pw, pnl) == [power |-> "awake", panel |-> Cleared]
EPaper_terminate(pw, pnl) == [power |-> "asleep", panel |-> Cleared]

\* display.terminate(): EPaper runs init_display and epd.sleep; Screen passes
Display_terminate ==
    /\ dcall.op # "off" /\ dn < MaxCalls
    /\ panel' = IF backend = "EPaper" THEN EPaper_terminate(power, panel).panel ELSE panel
    /\ power' = IF backend = "EPaper" THEN EPaper_terminate(power, panel).power ELSE power
    /\ dcall' = ApiCall("terminate", <<>>, StrEmpty, FALSE, "none",
                        IF backend = "EPaper" THEN <<"init", "Clear", "sleep">> ELSE <<>>)
    /\ dn' = dn + 1
    /\ UNCHANGED <<backend, widgets, wcfg, wimg, image, painting, pvars, svars, skvars, uvars>>

NextDisplay ==
    \/ Display_update_widget \/ Display_update_all_widgets
    \/ Display_refresh \/ Display_terminate

(***************************************************************************)
(* The registry: Display.add_widget, called on a display nothing was       *)
(* added to yet.                                                           *)
(***************************************************************************)
\* the widgets a caller adds
AddedWidgets == {IconWidget("p0"), TextWidget("p1", TRUE, 1, <<"V">>, <<>>)}
\* the ids a caller passes: "" or a topic
AddedIds == {<<>>} \cup Topics

\* Display.add_widget(id, widget), gen being what generate_id returns if it
\* is called: [widgets, wcfg, wimg, key]
add_widget(reg, cfg, img, id, w, gen) ==
    LET key == IF id = <<>> THEN gen ELSE id
        n == Len(cfg) + 1
    IN  [widgets |-> IF Registered(reg, key)
                     THEN [k \in 1..Len(reg) |->
                             IF reg[k].id = key
                             THEN [reg[k] EXCEPT !.list = Append(reg[k].list, n)]
                             ELSE reg[k]]
                     ELSE Append(reg, [id |-> key, list |-> <<n>>]),
         wcfg |-> Append(cfg, w),
         wimg |-> Append(img, FreshImages(<<w>>)[1]),
         key |-> key]

InitRegistry ==
    /\ backend = "Screen"
    /\ widgets = <<>> /\ wcfg = <<>> /\ wimg = <<>>
    /\ image = FreshBuffer /\ panel = FreshBuffer /\ power = "none" /\ painting = "none"
    /\ ucall = [op |-> "none", unit |-> "registry"]
    /\ un = 0

Display_add_widget ==
    /\ ucall.op # "off" /\ ucall.unit = "registry" /\ un < MaxAdds
    /\ \E id \in AddedIds, w \in AddedWidgets, gen \in AnonIds :
        LET r == add_widget(widgets, wcfg, wimg, id, w, gen)
        IN  /\ widgets' = r.widgets
            /\ wcfg' = r.wcfg
            /\ wimg' = r.wimg
            /\ ucall' = [op |-> "add_widget", unit |-> "registry", id |-> id, key |-> r.key,
                          n |-> Len(r.wcfg), widgets0 |-> widgets]
    /\ un' = un + 1
    /\ UNCHANGED <<backend, image, power, panel, painting, pvars, svars, skvars, apivars>>

NextRegistry == Display_add_widget

(***************************************************************************)
(* The widgets on their own: a Text or a ProgressBar is constructed and    *)
(* then updated.  The widget is wcfg[1]: its constructor arguments, the    *)
(* extent of its image and what is drawn in it (Text: the characters;      *)
(* ProgressBar: the width of the fill).  Numbers are in hundredths.        *)
(***************************************************************************)
\* the keyword arguments a caller passes to Text(...); define_widgets
\* passes scale for some widgets
ScaleArgs == {[given |-> FALSE, s |-> 1], [given |-> TRUE, s |-> 1], [given |-> TRUE, s |-> 100]}
TextArgs ==
    [type : {"Text"}, size : {<<80, 24>>}, is_numeric : BOOLEAN, decimal : {0, 1, 2},
     suffix : {<<>>, <<"V">>}, text : {<<>>, <<"-">>}, scale : ScaleArgs]
\* the arguments a caller passes to ProgressBar(position, size, min, max)
ProgressBarArgs ==
    [type : {"ProgressBar"}, position : {<<10, 20>>, <<50, 8>>}, size : {<<50, 8>>},
     min : {0, 500}, max : {500, 10000}]

\* Text.__init__: it has no parameter scale, so the keyword raises TypeError
Text_init(a) ==
    IF a.scale.given THEN [exc |-> "TypeError"]
    ELSE [exc |-> "none",
          obj |-> [type |-> "Text",
                   cfg |-> TextWidget("p0", a.is_numeric, a.decimal, a.suffix, a.text),
                   size |-> a.size, extent |-> a.size, ink |-> Blank]]

\* Text.update on the widget object: the image keeps its extent (paste
\* clips what lies outside)
Text_update_obj(o, value) ==
    LET r == Text_update(o.cfg, value)
    IN  [obj |-> [o EXCEPT !.ink = r.img], exc |-> r.exc]

\* float(value) raises ValueError
FloatFails(value) == value.kind = "str" /\ ~value.fok

\* ProgressBar.update: the value is parsed (min on ValueError) and clamped,
\* the width of the fill computed by a division by max - min
ProgressBar_update(o, value) ==
    LET v0 == IF FloatFails(value) THEN o.min ELSE value.num
        v1 == IF v0 < o.min THEN o.min ELSE v0
        val == IF v1 > o.max THEN o.max ELSE v1
    IN  IF o.max - o.min = 0 THEN [obj |-> o, exc |-> "ZeroDivisionError"]
        ELSE [obj |-> [o EXCEPT !.ink = [fill |-> ((val - o.min) * o.size[1]) \div (o.max - o.min)]],
              exc |-> "none"]

\* f"{min}"
MinStr(m) == [kind |-> "str", txt |-> IntChars(m \div 100), fok |-> TRUE, num |-> m]

\* ProgressBar.__init__: Image.new("1", self.position, 0), then
\* self.update(f"{min}")
ProgressBar_init(a) ==
    LET o == [type |-> "ProgressBar", min |-> a.min, max |-> a.max, size |-> a.size,
              extent |-> a.position, ink |-> [fill |-> 0]]
        r == ProgressBar_update(o, MinStr(a.min))
    IN  IF r.exc # "none" THEN [exc |-> r.exc] ELSE [exc |-> "none", obj |-> r.obj]

InitWidget ==
    /\ backend = "Screen"
    /\ widgets = <<>> /\ wcfg = <<>> /\ wimg = <<>>
    /\ image = FreshBuffer /\ panel = FreshBuffer /\ power = "none" /\ painting = "none"
    /\ ucall = [op |-> "none", unit |-> "widget"]
    /\ un = 0

\* widget = Text(...) or widget = ProgressBar(...)
Widget_construct ==
    /\ ucall.op = "none" /\ ucall.unit = "widget"
    /\ \E a \in TextArgs \cup ProgressBarArgs :
        LET r == IF a.type = "Text" THEN Text_init(a) ELSE ProgressBar_init(a)
        IN  /\ wcfg' = IF r.exc = "none" THEN <<r.obj>> ELSE <<>>
            /\ ucall' = [op |-> "init", unit |-> "widget", args |-> a, exc |-> r.exc]
    /\ UNCHANGED <<un, backend, widgets, wimg, image, power, panel, painting>>
    /\ UNCHANGED <<pvars, svars, skvars, apivars>>

\* widget.update(value) on the widget constructed
Widget_update_call ==
    /\ ucall.op \in {"init", "update"} /\ ucall.unit = "widget"
    /\ wcfg # <<>> /\ un < MaxUpdates
    /\ \E value \in JsonLeaves :
        LET o == wcfg[1]
            r == IF o.type = "Text" THEN Text_update_obj(o, value)
                 ELSE ProgressBar_update(o, value)
        IN  /\ wcfg' = <<r.obj>>
            /\ ucall' = [op |-> "update", unit |-> "widget", value |-> value, exc |-> r.exc,
                          obj0 |-> o]
    /\ un' = un + 1
    /\ UNCHANGED <<backend, widgets, wimg, image, power, panel, painting>>
    /\ UNCHANGED <<pvars, svars, skvars, apivars>>

NextWidget == Widget_construct \/ Widget_update_call

(***************************************************************************)
(* MqttProvider and the commands it issues to its bus client               *)
(* (mqtt.Client), over any topic list: provider.py and provider/mqtt.py.   *)
(***************************************************************************)
MaxTopics == 3

\* the lists a provider can be constructed with: empty topics and repeated
\* topics included
RECURSIVE ListsUpTo(_, _)
ListsUpTo(S, n) ==
    IF n = 0 THEN {<<>>}
    ELSE ListsUpTo(S, n - 1) \cup {Append(l, x) : l \in {m \in ListsUpTo(S, n - 1) : Len(m) = n - 1}, x \in S}

TopicLists == ListsUpTo({<<>>} \cup Topics, MaxTopics)

MqttModules == {"provider.py", "provider/mqtt.py"}

\* a variation that subscribes the empty topic too
Mqtt_subscribe_topic_any(log, topic) == Append(log, [cmd |-> "subscribe", topic |-> topic])

\* if topic: self.client.subscribe(topic)
Mqtt_subscribe_topic(log, topic) ==
    IF topic # <<>> THEN Append(log, [cmd |-> "subscribe", topic |-> topic]) ELSE log

\* for topic in self.topics: ...
RECURSIVE Mqtt_subscribe_topics(_, _)
Mqtt_subscribe_topics(log, list) ==
    IF list = <<>> THEN log
    ELSE Mqtt_subscribe_topics(Mqtt_subscribe_topic(log, Head(list)), Tail(list))

\* MqttProvider(host, port, id, subscriptions)
InitMqtt ==
    /\ backend = "Screen"
    /\ widgets = <<>> /\ wcfg = <<>> /\ wimg = <<>>
    /\ image = FreshBuffer /\ panel = FreshBuffer /\ power = "none" /\ painting = "none"
    /\ \E m \in MqttModules, l \in TopicLists :
        ucall = [op |-> "init", unit |-> "mqtt", module |-> m, topics |-> l, log |-> <<>>]
    /\ un = 0

\* MqttProvider.connect: self.client.connect(self.host, self.port)
Mqtt_connect ==
    /\ ucall.op = "init" /\ ucall.unit = "mqtt"
    /\ ucall' = [ucall EXCEPT !.op = "connect",
                              !.log = Append(@, [cmd |-> "connect", topic |-> <<>>])]
    /\ UNCHANGED <<un, dvars, pvars, svars, skvars, apivars>>

\* MqttProvider.run: self.client.loop_start(), then the subscriptions
Mqtt_run ==
    /\ ucall.op = "connect" /\ ucall.unit = "mqtt"
    /\ ucall' = [ucall EXCEPT !.op = "run",
                              !.log = Mqtt_subscribe_topics(
                                          Append(@, [cmd |-> "loop_start", topic |-> <<>>]),
                                          ucall.topics)]
    /\ UNCHANGED <<un, dvars, pvars, svars, skvars, apivars>>

NextMqtt == Mqtt_connect \/ Mqtt_run

\* a component that is not part of the run sits still
DisplayOff == InitDisplay(LayoutDemo) /\ backend = "Screen"

ServiceOff ==
    /\ kind = "none" /\ entry = "none" /\ topics = <<>> /\ data = <<>> /\ on_data = FALSE
    /\ pc = "off" /\ exc = "none" /\ loop = "off" /\ subscribed = {}
    /\ cb = NoCb /\ calls = NoCalls /\ seen = <<>>
    /\ cyc = [status |-> "none", prev |-> "none", data0 |-> <<>>, image0 |-> FreshBuffer,
              obs |-> <<>>, last |-> <<>>, batch |-> <<>>, paints |-> 0, at |-> "none", doc |-> Absent]
    /\ ncycle = 0 /\ nmsg = 0 /\ nterm = 0

SignalKOff ==
    /\ sk_pc = "off" /\ sk_exc = "none" /\ sk_topics = <<>> /\ sk_callback = 0
    /\ sk_subs = <<>> /\ sk_log = <<>> /\ sk_cyc = NoSkCycle
    /\ sk_seen = [t \in Topics |-> NoObs] /\ sk_n = 0 /\ sk_regs = 0

CallerOff == dcall = ApiOff /\ dn = 0

UnitOff == ucall = [op |-> "off"] /\ un = 0

\* the Service with a provider of provider.py and a Display
InitOfSystem == InitSystem /\ SignalKOff /\ CallerOff /\ UnitOff
SpecSystem == InitOfSystem /\ [][NextSystem]_vars

\* the provider/ package's SignalKProvider on its own
InitOfSignalK == InitSignalK /\ DisplayOff /\ ServiceOff /\ CallerOff /\ UnitOff
SpecSignalK == InitOfSignalK /\ [][NextSignalK]_vars

\* a Display and its direct caller
InitOfDisplay == InitApi /\ ServiceOff /\ SignalKOff /\ UnitOff
SpecDisplay == InitOfDisplay /\ [][NextDisplay]_vars

\* a display being given its widgets
InitOfRegistry == InitRegistry /\ ServiceOff /\ SignalKOff /\ CallerOff
SpecRegistry == InitOfRegistry /\ [][NextRegistry]_vars

\* a widget and its direct caller
InitOfWidget == InitWidget /\ ServiceOff /\ SignalKOff /\ CallerOff
SpecWidget == InitOfWidget /\ [][NextWidget]_vars

\* an MqttProvider and its bus client
InitOfMqtt == InitMqtt /\ ServiceOff /\ SignalKOff /\ CallerOff
SpecMqtt == InitOfMqtt /\ [][NextMqtt]_vars

\* any of them
Init == InitOfSystem \/ InitOfSignalK \/ InitOfDisplay \/ InitOfRegistry \/ InitOfWidget
            \/ InitOfMqtt
Next == NextSystem \/ NextSignalK \/ NextDisplay \/ NextRegistry \/ NextWidget \/ NextMqtt
Spec == Init /\ [][Next]_vars

(***************************************************************************)
(* Properties.                                                             *)
(***************************************************************************)
FetchFailures == {"timeout", "http_error", "bad_json"}

\* the poll cycle of the Service-wired provider is over: the loop went on,
\* or an exception other than the interrupt ended it
CycleOver == pc \in {"sleep", "fetch"} \/ (pc = "crashed" /\ exc # "KeyboardInterrupt")

RECURSIVE ExpectedUpdates(_)
ExpectedUpdates(batch) ==
    IF batch = <<>> THEN <<>>
    ELSE <<Call("update_widget", Head(batch)[1], Head(batch)[2])>> \o ExpectedUpdates(Tail(batch))

\* C2: for every non-empty batch delivered to Service.callback, the calls
\* it has made when it is left are update_widget(topic, value, False) for
\* every item in batch order and then exactly one refresh().
C2_UpdatesThenOneRefresh ==
    calls.state \in {"returned", "raised"} =>
        calls.log = ExpectedUpdates(calls.batch) \o <<Call("refresh", <<>>, StrEmpty)>>

\* the main thread is inside a Display operation
MainInDisplay ==
    \/ pc \in {"term_clear", "term_sleep"}
    \/ cb.ctx = "main" /\ cb.inside # "none"
\* the delivery thread is inside a Display operation
LoopInDisplay == cb.ctx = "loop" /\ cb.inside # "none" /\ loop = "on"

\* C3: mutual exclusion of Display mutation: the main thread and the
\* delivery thread are never inside update_widget / refresh / terminate at
\* the same time.
C3_MutualExclusion == ~(MainInDisplay /\ LoopInDisplay)

\* C4: no outcome of the fetch (timeout or connection error, failure
\* status, body that is no JSON) ends the poll loop: after such a cycle the
\* loop is at its sleep or its next fetch.
C4_FetchFailureIsNoOp ==
    /\ sk_cyc.status \in FetchFailures => sk_pc \in {"sleep", "fetch"}
    /\ cyc.status \in FetchFailures => (pc \in {"sleep", "fetch"} \/ exc = "KeyboardInterrupt")

\* C5: a cycle with a failure status delivers nothing, repaints nothing and
\* leaves the last values and the master buffer as they were; a following
\* successful cycle in which exactly one topic changed delivers that one
\* delta and repaints the display exactly once.
C5_FailureThenOneRepaint ==
    /\ cyc.status = "http_error" =>
        /\ cyc.batch = <<>> /\ cyc.paints = 0 /\ cb.ctx = "none"
        /\ data = cyc.data0 /\ image = cyc.image0
    /\ (cyc.status = "ok" /\ cyc.prev = "http_error" /\ on_data /\ Len(cyc.batch) = 1
            /\ CycleOver) =>
        (calls.batch = cyc.batch /\ cyc.paints = 1)

\* C6: Display.terminate is called exactly once when KeyboardInterrupt
\* reaches Service.run, before run returns, and never otherwise: the count
\* is 1 when run has returned, it never exceeds 1, and it is 0 unless the
\* main thread is in or past Service.quit.
C6_TerminateOnceOnCancel ==
    /\ nterm <= 1
    /\ pc = "done" => nterm = 1
    /\ nterm = 1 => pc \in {"term_init", "term_clear", "term_sleep", "term_pass", "done"}
    /\ pc \in {"term_init", "term_clear", "term_sleep", "term_pass"} => nterm = 1

\* Service.run has returned after an interrupt, with the one call of
\* terminate made and the e-paper controller put to sleep by it
C6_RunReturnedAfterCancel == pc = "done" /\ nterm = 1 /\ power = "asleep"

\* C8: the first successful observation of a subscribed topic is emitted,
\* whatever the value: a tracker with a callback (package), and every topic
\* of the batch-building provider, is in the cycle's emissions when the
\* topic had not been observed before.
C8_FirstObservationEmitted ==
    /\ sk_cyc.status = "ok" =>
        \A k \in 1..Len(sk_subs) :
            (sk_subs[k].callback # 0 /\ sk_cyc.last[sk_subs[k].topic] = NoObs) =>
                \E j \in 1..Len(sk_log) : sk_log[j].topic = sk_subs[k].topic
    /\ (cyc.status = "ok" /\ on_data) =>
        \A t \in DOMAIN cyc.last :
            cyc.last[t] = NoObs => \E j \in 1..Len(cyc.batch) : cyc.batch[j][1] = t

\* C9: update_widget with an id no widget is registered under is a silent
\* no-op: no error, no widget bitmap and no part of the master buffer
\* changed, no backend command.
C9_UnregisteredIsNoOp ==
    (dcall.op = "update_widget" /\ ~Registered(widgets, dcall.id)) =>
        /\ dcall.exc = "none"
        /\ wimg = dcall.wimg0 /\ image = dcall.image0 /\ panel = dcall.panel0
        /\ dcall.cmds = <<>>

\* C10: a poll cycle in which k topics changed repaints the display once
\* if k >= 1 and not at all if k = 0.
C10_OneRepaintPerCycle ==
    (cyc.status = "ok" /\ on_data /\ CycleOver) =>
        cyc.paints = IF cyc.batch # <<>> THEN 1 ELSE 0

\* C11: on the e-paper backend update_widget(id, value, refresh=True) for a
\* registered id updates and pastes the widgets of the id and then issues
\* exactly one partial repaint followed by exactly one sleep command, and
\* no full repaint.
C11_PartialRepaintThenSleep ==
    (dcall.op = "update_widget" /\ dcall.refresh /\ backend = "EPaper"
            /\ Registered(widgets, dcall.id)) =>
        /\ dcall.exc = "none"
        /\ dcall.cmds = <<"display_Partial", "sleep">>

\* the full repaints (EPaper: epd.display, Screen: image.show) and the
\* partial repaints among the commands of a call
FullRepaints(cmds) == Cardinality({k \in DOMAIN cmds : cmds[k] \in {"display", "show"}})
PartialRepaints(cmds) == Cardinality({k \in DOMAIN cmds : cmds[k] = "display_Partial"})

\* C12: for any registry contents update_all_widgets() updates and pastes
\* every registered topic and then issues exactly one full repaint, and no
\* partial repaint.
C12_AllUpdatedThenOneFullRepaint ==
    dcall.op = "update_all_widgets" =>
        /\ dcall.exc = "none"
        /\ FullRepaints(dcall.cmds) = 1
        /\ PartialRepaints(dcall.cmds) = 0

\* C13: update_all_widgets() supplies no new value: when the call before
\* it was update_widget(t, v, ...) rendering v on the widgets of t, every
\* widget under t shows after update_all_widgets() has returned the bitmap
\* it showed before it.
C13_RetainedValueSurvives ==
    (dcall.op = "update_all_widgets" /\ dcall.exc = "none"
            /\ dcall.prev.op = "update_widget"
            /\ dcall.prev.exc = "none" /\ Registered(widgets, dcall.prev.id)) =>
        \A k \in Range(Lookup(widgets, dcall.prev.id)) : wimg[k] = dcall.wimg0[k]

\* a call made on each of the displays S unless an exception already ended
\* the sequence
RECURSIVE EachTopicThen(_, _, _, _, _)
EachTopicThen(b, reg, cfg, S, k) ==
    IF k > Len(reg) THEN S
    ELSE EachTopicThen(b, reg, cfg,
            UNION { IF s.exc # "none" THEN {s}
                    ELSE Do_update_widget(b, reg, cfg, s, reg[k].id, StrEmpty, FALSE) : s \in S },
            k + 1)
ThenRefresh(b, S) == UNION { IF s.exc # "none" THEN {s} ELSE Do_refresh(b, s) : s \in S }

\* update_all_widgets(); refresh()
AllThenRefresh == ThenRefresh(backend, Do_update_all_widgets(backend, widgets, wcfg, Cur))
\* update_widget(topic, refresh=False) for every registered topic; refresh()
EachThenRefresh == ThenRefresh(backend, EachTopicThen(backend, widgets, wcfg, {Cur}, 1))

\* what is compared: the master buffer and the image the panel shows
Shown(S) == { <<s.image, s.panel>> : s \in S }

\* C14: from the same display state, update_all_widgets() followed by
\* refresh() leaves the same master buffer and the same painted image as
\* update_widget(topic, refresh=False) for every registered topic followed
\* by one refresh().
C14_AllEqualsEachThenRefresh == Shown(AllThenRefresh) = Shown(EachThenRefresh)

\* C15: on every backend refresh() issues a full repaint of the current
\* master buffer, calls no widget.update, and leaves the master buffer and
\* all widget bitmaps unchanged.
C15_RefreshRepaintsBuffer ==
    dcall.op = "refresh" =>
        /\ dcall.exc = "none"
        /\ FullRepaints(dcall.cmds) = 1
        /\ panel = image
        /\ wimg = dcall.wimg0 /\ image = dcall.image0

\* C16: terminate() is idempotent: a terminate() that directly follows a
\* terminate() raises no error, as the first did not, and leaves the power
\* state and the displayed contents the first one left.
C16_TerminateIdempotent ==
    (dcall.op = "terminate" /\ dcall.prev.op = "terminate") =>
        /\ dcall.prev.exc = "none" /\ dcall.exc = "none"
        /\ power = dcall.power0 /\ panel = dcall.panel0

\* terminate() was called twice in a row on the e-paper backend, which is
\* asleep with a blank panel
C16_TerminatedTwice ==
    /\ dcall.op = "terminate" /\ dcall.prev.op = "terminate" /\ backend = "EPaper"
    /\ dcall.power0 = "asleep" /\ power = "asleep" /\ panel = Cleared

\* C17: from every reachable display state, one where the controller is
\* already asleep after a repaint included, terminate() completes with the
\* e-paper backend in its sleep state: no error, and sleep its last command.
C17_TerminateEndsAsleep ==
    (dcall.op = "terminate" /\ backend = "EPaper") =>
        /\ dcall.exc = "none"
        /\ power = "asleep"
        /\ dcall.cmds # <<>> /\ dcall.cmds[Len(dcall.cmds)] = "sleep"

\* terminate() was called right after a repaint had put the controller to
\* sleep, and left it asleep
C17_TerminatedWhileAsleep ==
    /\ dcall.op = "terminate" /\ backend = "EPaper" /\ power = "asleep"
    /\ dcall.power0 = "asleep"
    /\ dcall.prev.op \in {"update_widget", "update_all_widgets"}
    /\ dcall.panel0 # Cleared

\* C18: the terminated display state is terminal: for a message the push
\* provider's delivery loop delivers after Service.quit's call of
\* Display.terminate() has returned, no widget is updated, nothing is
\* pasted into the master buffer and nothing is repainted.
C18_TerminatedIsTerminal ==
    (cyc.status = "msg" /\ cyc.at = "done" /\ on_data) =>
        /\ calls.log = <<>>
        /\ image = cyc.image0
        /\ cyc.paints = 0

\* C19: in the push provider every inbound message causes exactly one
\* invocation of the registered callback, carrying the message's (topic,
\* decoded payload) whether or not the payload repeats the previous one,
\* and Service.callback accepts it: when the invocation is over it has
\* updated the topic's widgets and then called refresh() once.
C19_MessageInvokesAcceptedCallback ==
    (cyc.status = "msg" /\ on_data) =>
        /\ calls.by = "loop" /\ calls.batch = cyc.batch
        /\ calls.state \in {"returned", "raised"} =>
                calls.log = ExpectedUpdates(cyc.batch) \o <<Call("refresh", <<>>, StrEmpty)>>

\* C20: a failure of the push provider's connect() is not retried and
\* leaves Service.run as the exception it is: provider.run() is not
\* started (no delivery thread), no subscribe request is issued, the idle
\* loop is not entered, and neither display.terminate nor the callback runs.
C20_ConnectFailurePropagates ==
    exc = "ConnectionError" =>
        /\ pc = "crashed"
        /\ loop = "off" /\ subscribed = {}
        /\ nmsg = 0 /\ nterm = 0 /\ cb = NoCb /\ calls = NoCalls

\* connect() of the push provider has failed under Service.run
C20_ConnectFailed ==
    /\ kind = "push" /\ entry = "Service.run"
    /\ exc = "ConnectionError" /\ pc = "crashed"

\* the path has a key the document lacks: the first segment, or a later
\* one inside the objects the earlier segments lead to
RECURSIVE MissingKey(_, _)
MissingKey(val, path) ==
    /\ path # <<>>
    /\ val.kind = "dict"
    /\ \/ Head(path) \notin DOMAIN val.items
       \/ MissingKey(val.items[Head(path)], Tail(path))

\* C21: in a poll cycle that fetched a document, no exception aborts the
\* evaluation, and every subscribed topic whose path has a missing key at
\* any depth is extracted as the empty value.
C21_MissingKeyIsEmpty ==
    /\ sk_cyc.status \in {"ok", "eval_error"} =>
        /\ sk_cyc.status = "ok"
        /\ \A t \in SubscribedTopics(sk_subs) :
                MissingKey(sk_cyc.doc, t) => sk_cyc.obs[t] = StrEmpty
    /\ cyc.status \in {"ok", "eval_error"} =>
        /\ cyc.status = "ok"
        /\ \A t \in Range(topics) : MissingKey(cyc.doc, t) => cyc.obs[t] = StrEmpty

\* the registry but for the entry of one key
Others(reg, key) == [k \in {j \in 1..Len(reg) : reg[j].id # key} |-> reg[k]]

\* C22: add_widget with an empty id registers the widget under a freshly
\* generated key of its own (prefixed "__", distinct from every key there
\* is) that is not in the subscription set handed to the provider;
\* add_widget with a non-empty id appends the widget to the end of that
\* id's list; in both cases every other entry stays as it was.
C22_AnonymousKeysAndAppend ==
    ucall.op = "add_widget" =>
        /\ Registered(widgets, ucall.key)
        /\ Others(widgets, ucall.key) = Others(ucall.widgets0, ucall.key)
        /\ \A k \in 1..Len(widgets) :
                IsAnonymous(widgets[k].id) => widgets[k].id \notin Range(Subscriptions(widgets))
        /\ IF ucall.id = <<>>
           THEN /\ IsAnonymous(ucall.key)
                /\ ~Registered(ucall.widgets0, ucall.key)
                /\ Lookup(widgets, ucall.key) = <<ucall.n>>
           ELSE /\ ucall.key = ucall.id
                /\ Lookup(widgets, ucall.key) =
                     (IF Registered(ucall.widgets0, ucall.key)
                      THEN Lookup(ucall.widgets0, ucall.key) ELSE <<>>) \o <<ucall.n>>

\* the master buffer after the bitmaps update(value) gives the widgets of
\* list were pasted into img one after the other
RECURSIVE PastedInOrder(_, _, _, _, _)
PastedInOrder(img, cfg, w0, list, value) ==
    IF list = <<>> THEN img
    ELSE PastedInOrder([img EXCEPT ![cfg[Head(list)].pos] =
                                      Widget_update(cfg[Head(list)], w0[Head(list)], value).img],
                       cfg, w0, Tail(list), value)

\* C23: one update_widget(id, value, ...) calls update(value) on every
\* widget registered under id and pastes every bitmap into the master
\* buffer, in registration order, before any repaint: after the call every
\* one of them shows the value, the buffer holds their bitmaps, and what a
\* repaint of the call painted is that buffer.
C23_AllWidgetsOfTopicUpdated ==
    (dcall.op = "update_widget" /\ Registered(widgets, dcall.id)
            /\ Len(Lookup(widgets, dcall.id)) > 1) =>
        LET list == Lookup(widgets, dcall.id)
        IN  /\ dcall.exc = "none"
            /\ \A k \in Range(list) :
                    wimg[k] = Widget_update(wcfg[k], dcall.wimg0[k], dcall.value).img
            /\ image = PastedInOrder(dcall.image0, wcfg, dcall.wimg0, list, dcall.value)
            /\ dcall.cmds # <<>> =>
                    (panel = image \/ (dcall.power0 = "asleep" /\ panel = dcall.panel0))

\* C24: for a numeric Text widget, update(value) with a value float()
\* rejects raises no error, and the widget shows what it shows for no
\* value at all: its fallback.
C24_ParseFailureFallsBack ==
    (ucall.op = "update" /\ ucall.obj0.type = "Text" /\ ucall.obj0.cfg.is_numeric
            /\ FloatFails(ucall.value)) =>
        /\ ucall.exc = "none"
        /\ wcfg[1].ink = Text_update(ucall.obj0.cfg, StrEmpty).img

\* v * s (in hundredths) with exactly d fractional digits, or the rounded
\* integer when d = 0, then " " and the suffix iff the suffix is non-empty
ScaledText(num, s, d, suffix) ==
    LET digits == IF d > 0 THEN FixedChars(num * s, d)
                  ELSE IntChars(RoundHalfEven(num * s, 100))
    IN  IF suffix = <<>> THEN digits ELSE digits \o <<" ">> \o suffix

\* C25: a numeric Text widget with decimal places d and scale s exists, and
\* its format_text maps every numeric string v to v * s with d fractional
\* digits (rounded integer for d = 0), followed by " " and the suffix iff
\* the suffix is non-empty.
C25_FormatScaledValue ==
    (ucall.op = "init" /\ ucall.args.type = "Text" /\ ucall.args.is_numeric) =>
        /\ ucall.exc = "none"
        /\ \A v \in {x \in Payloads : x.fok} :
              format_text(wcfg[1].cfg, v) =
                  [exc |-> "none",
                   val |-> Str(ScaledText(v.num, ucall.args.scale.s, ucall.args.decimal,
                                          ucall.args.suffix))]

\* the last widget call was made on a ProgressBar with max == min
DegenerateBarCall ==
    \/ ucall.op = "init" /\ ucall.args.type = "ProgressBar" /\ ucall.args.max = ucall.args.min
    \/ ucall.op = "update" /\ ucall.obj0.type = "ProgressBar" /\ ucall.obj0.max = ucall.obj0.min

\* C26: constructing a ProgressBar with max == min, and every update of it,
\* completes without error and leaves an empty bar (fill width 0).
C26_DegenerateBarIsEmpty ==
    DegenerateBarCall =>
        /\ ucall.exc = "none"
        /\ wcfg[1].ink = [fill |-> 0]

\* the topics of the subscribe requests of a command log, in order
RECURSIVE Requested(_)
Requested(log) ==
    IF log = <<>> THEN <<>>
    ELSE IF Head(log).cmd = "subscribe" THEN <<Head(log).topic>> \o Requested(Tail(log))
    ELSE Requested(Tail(log))

NonEmptyTopic(t) == t # <<>>

\* C27: MqttProvider.run() starts the bus client's delivery loop first and
\* then issues one subscribe request per non-empty topic of the topic list,
\* in list order: every subscribe request comes after loop_start, and none
\* is for an empty topic.
C27_LoopStartThenSubscribe ==
    (ucall.op = "run" /\ ucall.unit = "mqtt") =>
        /\ Requested(ucall.log) = SelectSeq(ucall.topics, NonEmptyTopic)
        /\ \E i \in 1..Len(ucall.log) :
            /\ ucall.log[i].cmd = "loop_start"
            /\ \A j \in 1..Len(ucall.log) :
                  ucall.log[j].cmd = "subscribe" => i < j

\* run() on a list with an empty topic between two topics
C27_RanWithEmptyTopic ==
    /\ ucall.op = "run" /\ ucall.unit = "mqtt"
    /\ ucall.topics = <<T2, <<>>, T1>>
    /\ Requested(ucall.log) = <<T2, T1>>

\* the last widget call was Text.update on a drawn widget with a value whose
\* formatted text leaves no ink: there is no extent to measure
InklessTextUpdate ==
    /\ ucall.op = "update" /\ ucall.obj0.type = "Text"
    /\ ucall.obj0.ink # Blank
    /\ LET f == format_text(ucall.obj0.cfg, ucall.value)
       IN  f.exc = "none" /\ f.val.kind = "str" /\ ~HasInk(f.val.txt)

\* C28: when Text.update(value) measures a text of zero width or height,
\* the widget's bitmap after the call is its bitmap before the call and no
\* error is raised.
C28_EmptyExtentKeepsBitmap ==
    InklessTextUpdate =>
        /\ ucall.exc = "none"
        /\ wcfg[1].ink = ucall.obj0.ink

\* C29: whatever is constructed and however often it is updated, a widget's
\* bitmap has exactly the widget's declared (w, h) extent.
C29_BitmapHasDeclaredExtent ==
    (ucall.unit = "widget" /\ wcfg # <<>>) => wcfg[1].extent = wcfg[1].size

\* the controller's power state after a sequence of driver commands
RECURSIVE PowerAfter(_, _)
PowerAfter(pw, cmds) ==
    IF cmds = <<>> THEN pw
    ELSE PowerAfter(IF Head(cmds) = "init" THEN "awake"
                    ELSE IF Head(cmds) = "sleep" THEN "asleep"
                    ELSE pw,
                    Tail(cmds))

\* C30: on the e-paper backend no paint command (display, display_Partial)
\* is issued while the controller is asleep: an init() lies between every
\* sleep() and the next paint command.
C30_NoPaintWhileAsleep ==
    (backend = "EPaper" /\ dcall.op \notin {"off", "none"}) =>
        \A i \in 1..Len(dcall.cmds) :
            dcall.cmds[i] \in {"display", "display_Partial"} =>
                PowerAfter(dcall.power0, SubSeq(dcall.cmds, 1, i - 1)) = "awake"

\* the step hands the callback of tracker k the value the tracker stores
DeliveredInStep(k) ==
    \E i \in 1..Len(sk_log') :
        /\ sk_log'[i].topic = sk_subs[k].topic
        /\ sk_log'[i].value = sk_subs'[k].value

\* C31: the poll provider's stored last value of a topic changes only in a
\* step that also delivers that value to the registered callback; a change
\* seen while no callback is registered is not recorded.
C31_StoredOnlyWhenDelivered ==
    [][\A k \in 1..Len(sk_subs) :
          sk_subs'[k].value # sk_subs[k].value => DeliveredInStep(k)]_vars

\* the delta-tracker entries of a topic, and the callback invocations of the
\* last cycle for it
TrackersOf(t) == {k \in 1..Len(sk_subs) : sk_subs[k].topic = t}
InvocationsFor(t) == {i \in 1..Len(sk_log) : sk_log[i].topic = t}

\* C32: after any number of register_callback calls (and no other
\* subscription), every topic of the provider has exactly one delta-tracker
\* entry, and a cycle invokes the callback at most once per topic.
C32_OneTrackerPerTopic ==
    (sk_regs >= 1 /\ Len(sk_subs) = sk_regs * Len(sk_topics)) =>
        \A t \in Range(sk_topics) :
            /\ Cardinality(TrackersOf(t)) = 1
            /\ Cardinality(InvocationsFor(t)) <= 1

\* C33: once a callback is registered, every delta tracker of the poll
\* provider delivers to the callback passed to register_callback last,
\* whenever the topic was subscribed: no tracker keeps an absent or a
\* replaced callback, and no delta goes to another callback.
C33_LatestCallbackReceives ==
    sk_regs >= 1 =>
        /\ \A k \in 1..Len(sk_subs) : sk_subs[k].callback = sk_callback
        /\ \A i \in 1..Len(sk_log) : sk_log[i].callback = sk_callback

\* the widgets registered under an id (none for an id that is no key)
WidgetsUnder(id) == IF Registered(widgets, id) THEN Range(Lookup(widgets, id)) ELSE {}

\* C34: update_widget(topic_id, value, refresh=False) changes only the
\* bitmaps of the widgets registered under topic_id and the places of the
\* master buffer they are pasted into; it issues no backend command, and it
\* leaves the panel, the controller, the other widgets and the registry as
\* they were.
C34_UpdateWithoutRefreshFrame ==
    [][(dn' # dn /\ dcall'.op = "update_widget" /\ ~dcall'.refresh) =>
          /\ dcall'.cmds = <<>>
          /\ panel' = panel /\ power' = power /\ painting' = painting
          /\ widgets' = widgets /\ wcfg' = wcfg
          /\ \A i \in 1..Len(wcfg) : i \notin WidgetsUnder(dcall'.id) => wimg'[i] = wimg[i]
          /\ \A p \in Positions :
                p \notin {wcfg[i].pos : i \in WidgetsUnder(dcall'.id)} => image'[p] = image[p]]_vars

\* an e-paper display with several topics took update_widget(refresh=False)
\* and the master buffer changed
C34_UpdatedWithoutRefresh ==
    /\ backend = "EPaper" /\ Len(widgets) > 1
    /\ dcall.op = "update_widget" /\ ~dcall.refresh /\ dcall.exc = "none"
    /\ image # dcall.image0
    /\ panel = dcall.panel0 /\ dcall.cmds = <<>>

====
